---- MODULE Spec2Model ----
(***************************************************************************)
(* Model of mlflow/utils/autologging_utils/safety.py: safe_patch (the      *)
(* guarded call), with_managed_run, PatchFunction, try_mlflow_log and the  *)
(* _AutologgingSessionManager.                                             *)
(*                                                                         *)
(* A guarded call is a frame on the call stack of a thread.  The patch     *)
(* implementation and the original function are arbitrary code: the patch  *)
(* implementation is a nondeterministic program that may call the guarded  *)
(* closure (call_original) with arguments of its choice, catch or let pass *)
(* what the closure raises, start and end runs, return a value or raise;   *)
(* the original function is a table from its                               *)
(* argument to its outcome, drawn in Init, and may make nested guarded     *)
(* calls while it runs.                                                    *)
(***************************************************************************)
EXTENDS Integers, Sequences, FiniteSets, TLC

\* ---------------------------------------------------------------- bounds
MaxDepth == 2         \* guarded calls nested on one call chain
MaxCalls == 2         \* guarded calls started in one behaviour
MaxClosureCalls == 2  \* invocations of call_original by one patch implementation
MaxRuns == 2          \* runs the tracking backend creates in one behaviour
MaxPatches == 2       \* patches installed by safe_patch in one behaviour

\* ---------------------------------------------------------------- values
None == 0 - 1                      \* Python's None, as a value and as a run / session reference
UserArgs == {5}                    \* the caller's argument x
OgX == {5, 6}                      \* the x the patch implementation forwards to the closure
Extras == {"none", "unsafe"}       \* what the patch adds to the arguments it forwards
Integrations == {"sklearn", "keras"}
Threads == {"t1", "t2"}

\* An outcome of a call: a returned value or a raised exception.  An exception
\* is identified by its class and by the code that raised it (two exception
\* objects raised at different places are different objects).
Ret(v) == [k |-> "ret", v |-> v, cls |-> "-", src |-> "-"]
Exc(cls, src) == [k |-> "exc", v |-> None, cls |-> cls, src |-> src]
Pending == [k |-> "pending", v |-> None, cls |-> "-", src |-> "-"]

\* Mutant of IsException: an interrupt is caught like an exception.
IsException_All(o) == o.k = "exc"

\* except Exception catches every class but the interrupt (a BaseException)
IsException(o) == o.k = "exc" /\ o.cls # "KeyboardInterrupt"

\* The outcomes an original function may have for argument x: it returns x*2
\* or raises an exception.
OrigOutcomes(x) == {Ret(x * 2), Exc("Exception", "original")}

\* What a patch implementation raises by itself.
PatchRaises == {Exc("Exception", "patch"), Exc("KeyboardInterrupt", "patch")}

\* What a patch implementation returns: nothing, or the closure's result plus one.
PatchReturns(f) == IF f.original_result = None THEN {None} ELSE {None, f.original_result + 1}

VARIABLES
    testing,      \* is_testing(): the MLFLOW_AUTOLOGGING_TESTING switch
    original,     \* the original function: argument -> outcome
    live,         \* the threads that make guarded calls
    stacks,       \* per thread: the guarded calls in progress, outermost first
    session,      \* _AutologgingSessionManager._session: a session id or None
    sessions,     \* the AutologgingSession objects created so far: id -> [integration, state]
    runs,         \* the tracking backend's runs: id -> [status, tag, by]
    active,       \* the fluent stack of active runs (mlflow.active_run() is its last)
    done,         \* per thread: the guarded call that completed last, with its outcome
    ncalls,       \* guarded calls started so far
    unreliable,   \* whether calls of the tracking client may fail
    failing_events, \* the EventLogger notifications that raise an exception
    safe_calls,   \* the calls made of a function wrapped by exception_safe_function
    wrapped,      \* the calls made of exception_safe_function: [mode, function, wrapper]
    validated,    \* the calls made of _validate_args, with their result
    patches,      \* _AUTOLOGGING_PATCHES: integration -> set of patches
    gorilla,      \* the patches gorilla has applied: patch -> [integration, applied, reverts]
    registry_op   \* the last call of safe_patch or revert_patches, and the registry before it

\* The state that a guarded call does not change.
outside == <<failing_events, safe_calls, wrapped, validated>>

\* The patch registry: the patches recorded, and what gorilla has applied.
registry == <<patches, gorilla, registry_op>>

\* Mutant of RegistryUntouched: safe_patch_function records a patch, as if the
\* last two lines of safe_patch were part of it.
RegistryUntouched_StoresPatch ==
    /\ patches' = [i \in DOMAIN patches \cup {"sklearn"} |->
                      IF i \in DOMAIN patches THEN patches[i] \cup {0} ELSE {0}]
    /\ UNCHANGED <<gorilla, registry_op>>

\* safe_patch_function does not touch the registry: _wrap_patch and _store_patch
\* are called by safe_patch, after the definition of safe_patch_function.
RegistryUntouched == UNCHANGED registry

vars == <<testing, original, live, stacks, session, sessions, runs, active, done, ncalls,
          unreliable, failing_events, safe_calls, wrapped, validated, patches, gorilla,
          registry_op>>

\* ---------------------------------------------------------------- warnings
\* The behaviour of the current thread for the warnings that MLflow does not
\* emit, as a scope of set_non_mlflow_warnings_behavior_for_current_thread sets
\* it until the scope is left: disabled, rerouted to the event logger, or
\* neither (shown as normal).
WarningsBehavior(disable_warnings, reroute_warnings) ==
    [disable_warnings |-> disable_warnings, reroute_warnings |-> reroute_warnings]

NormalWarnings == WarningsBehavior(FALSE, FALSE)

\* The scope safe_patch_function opens around its whole body:
\* reroute_warnings=True, disable_warnings=is_silent_mode.
OuterWarnings(is_silent_mode) == WarningsBehavior(is_silent_mode, TRUE)

\* ---------------------------------------------------------------- frames
\* The arguments the patch implementation hands to the closure: the caller's x
\* or another one, with or without an added argument.
OgArgs == [x : OgX, extra : Extras]

NoFrame == [pc |-> "none"]

\* One guarded call (safe_patch_function) at its first line.  entry records what
\* the call read at entry (configuration, ambient session, active run).
NewFrame(integ, x, manage_run, patch_is_class, entry) ==
    [ integration |-> integ, args |-> x,
      manage_run |-> manage_run, patch_is_class |-> patch_is_class,
      entry |-> entry,
      pc |-> "entry", site |-> "-", og |-> [x |-> x, extra |-> "none"],
      warnings |-> OuterWarnings(entry.silent),  \* the thread's behaviour, as the scopes of this call set it
      owns |-> FALSE, sid |-> None,
      original_has_been_called |-> FALSE,
      original_result |-> None,
      failed_during_original |-> FALSE,
      preexisting_run_for_testing |-> None,
      patch_function_run_for_testing |-> None,
      managed_run |-> None,
      \* history of this call, read by the properties only
      invocations |-> << >>,    \* the invocations of original: [site, og, out]
      invocation_warnings |-> << >>, \* the thread's warnings behaviour during each invocation of original
      closure_calls |-> 0,      \* invocations of call_original
      closure_runs |-> << >>,   \* the active run (or None) at each invocation of original by call_original
      patch_calls |-> 0,        \* invocations of the patch implementation
      patch_out |-> Pending,    \* how the user's patch implementation ended
      wrapper_out |-> Pending,  \* how the patch function safe_patch_function called ended
      caught |-> {},            \* what the patch implementation caught of what the closure raised
      on_exception_calls |-> 0, \* invocations of the user's _on_exception
      on_exception_raises |-> FALSE, \* the user's _on_exception raises when it is called
      tracking_failed |-> FALSE,\* a tracking-client call of the wrapper failed
      patch_touched_runs |-> FALSE, \* the patch implementation started or ended runs itself
      created |-> << >>,        \* runs created by with_managed_run in this call
      ended |-> << >>,          \* end_run calls of with_managed_run: [run, status]
      events |-> << >>,         \* EventLogger notifications
      notified_state |-> "-",   \* the state of the session passed to log_patch_function_success
      out |-> Pending ]

Stack(t) == stacks[t]
Depth(t) == Len(stacks[t])
Top(t) == stacks[t][Len(stacks[t])]
Push(t, f) == [stacks EXCEPT ![t] = Append(@, f)]
SetTop(t, f) == [stacks EXCEPT ![t] = [@ EXCEPT ![Len(@)] = f]]
Pop(t) == [stacks EXCEPT ![t] = SubSeq(@, 1, Len(@) - 1)]

\* ---------------------------------------------------------------- tracking client
\* mlflow.active_run()
ActiveRun(act) == IF act = << >> THEN None ELSE act[Len(act)]

\* mlflow.start_run(tags): a new RUNNING run, pushed on the fluent stack
StartRun(rs, act, tag, by) ==
    [ runs |-> Append(rs, [status |-> "RUNNING", tag |-> tag, by |-> by]),
      active |-> Append(act, Len(rs) + 1) ]

\* mlflow.end_run(status): ends the active run, if any
EndRun(rs, act, status) ==
    IF act = << >> THEN [runs |-> rs, active |-> act]
    ELSE [ runs |-> [rs EXCEPT ![act[Len(act)]].status = status],
           active |-> SubSeq(act, 1, Len(act) - 1) ]

\* RunStatus.is_terminated
IsTerminated(status) == status \in {"FINISHED", "FAILED", "KILLED"}

\* ---------------------------------------------------------------- python objects
MaxLen == 2           \* elements of a list or tuple passed as an argument

\* The value of the float nan, the one value that differs from itself.
NaNValue == 0 - 2

\* A Python object as _validate_args reads it: type(o), its identity (o is o'),
\* its value under ==, callable(o), getattr(o, "exception_safe", False),
\* type(o.__class__), and the elements of a list or tuple or the entries of a dict.
Object(type, id, val, is_callable, safe, meta) ==
    [ type |-> type, id |-> id, val |-> val, callable |-> is_callable,
      exception_safe |-> safe, meta |-> meta, items |-> << >>, entries |-> << >> ]

PyNone == Object("NoneType", 0, 0, FALSE, FALSE, "type")
PyInt(id, v) == Object("int", id, v, FALSE, FALSE, "type")
PyBool(id, v) == Object("bool", id, v, FALSE, FALSE, "type")
PyFloat(id, v) == Object("float", id, v, FALSE, FALSE, "type")
\* an instance of a user class whose metaclass is meta; it equals itself only
PyInstance(id, meta) == Object("instance", id, id, FALSE, FALSE, meta)
PyFunction(id, safe) == Object("function", id, id, TRUE, safe, "type")
PyList(items) == [Object("list", 0, 0, FALSE, FALSE, "type") EXCEPT !.items = items]
PyTuple(items) == [Object("tuple", 0, 0, FALSE, FALSE, "type") EXCEPT !.items = items]
PyDict(entries) == [Object("dict", 0, 0, FALSE, FALSE, "type") EXCEPT !.entries = entries]

\* Mutant of Is: the identity of the two objects is not looked at.
Is_Never(a, u) == FALSE

\* "a is u" and "a == u" for objects that are no containers
Is(a, u) == a.id = u.id
Equal(a, u) == a.val = u.val /\ a.val # NaNValue

\* _validate_new_input(inp): whether its assertions hold
RECURSIVE ValidateNewInput(_)
ValidateNewInput(inp) ==
    IF inp.type = "list"
    THEN \A i \in DOMAIN inp.items : ValidateNewInput(inp.items[i])
    ELSE IF inp.callable
    THEN inp.exception_safe
    ELSE inp.meta \in {"ExceptionSafeClass", "ExceptionSafeAbstractClass"}

\* itertools.zip_longest and dict.get(key, None): the counterpart of an element
\* the user's input does not have is None
ItemOrNone(items, i) == IF i \in DOMAIN items THEN items[i] ELSE PyNone

\* _validate(autologging_call_input, user_call_input): whether its assertions hold
RECURSIVE Validate(_, _)
Validate(a, u) ==
    IF u.type = "NoneType" /\ a.type # "NoneType"
    THEN ValidateNewInput(a)
    ELSE /\ a.type = u.type
         /\ IF a.type \in {"list", "tuple"}
            THEN /\ Len(a.items) - Len(u.items) >= 0
                 /\ \A i \in DOMAIN a.items : Validate(a.items[i], ItemOrNone(u.items, i))
            ELSE IF a.type = "dict"
            THEN /\ DOMAIN u.entries \subseteq DOMAIN a.entries
                 /\ \A k \in DOMAIN a.entries : Validate(a.entries[k], ItemOrNone(u.entries, k))
            ELSE Is(a, u) \/ Equal(a, u)

\* _validate_args(user_call_args, user_call_kwargs, autologging_call_args,
\* autologging_call_kwargs): TRUE when it returns, FALSE when an assertion fails.
\* The arguments are the sequences and the mappings of a call.
ValidateArgs(user_call_args, user_call_kwargs, autologging_call_args, autologging_call_kwargs) ==
    /\ Validate(PyTuple(autologging_call_args), PyTuple(user_call_args))
    /\ Validate(PyDict(autologging_call_kwargs), PyDict(user_call_kwargs))

\* ---------------------------------------------------------------- helpers of safety.py
\* Mutant of TryEndRun: the run is always ended as FINISHED.
TryEndRun_AlwaysFinished(w, status, ok) ==
    LET e == EndRun(w.runs, w.active, "FINISHED")
    IN [ f |-> [w.f EXCEPT !.ended = Append(@, [run |-> ActiveRun(w.active), status |-> "FINISHED"])],
         runs |-> e.runs, active |-> e.active, raised |-> FALSE ]

\* Mutant of TryEndRun: a failure of the tracking client is raised in production
\* mode too.
TryEndRun_AlwaysRaises(w, status, ok) ==
    IF ok
    THEN LET e == EndRun(w.runs, w.active, status)
         IN [ f |-> [w.f EXCEPT !.ended = Append(@, [run |-> ActiveRun(w.active), status |-> status])],
              runs |-> e.runs, active |-> e.active, raised |-> FALSE ]
    ELSE [ f |-> [w.f EXCEPT !.tracking_failed = TRUE],
           runs |-> w.runs, active |-> w.active, raised |-> TRUE ]

\* try_mlflow_log(mlflow.end_run, status): the run is ended, or the tracking
\* client fails (ok = FALSE) and the failure is raised in test mode only.
\* w is [f, runs, active]; the result adds raised.
TryEndRun(w, status, ok) ==
    IF ok
    THEN LET e == EndRun(w.runs, w.active, status)
         IN [ f |-> [w.f EXCEPT !.ended = Append(@, [run |-> ActiveRun(w.active), status |-> status])],
              runs |-> e.runs, active |-> e.active, raised |-> FALSE ]
    ELSE [ f |-> [w.f EXCEPT !.tracking_failed = TRUE],
           runs |-> w.runs, active |-> w.active, raised |-> testing ]

\* try_mlflow_log(create_managed_run), with tags = {MLFLOW_AUTOLOGGING: integration}
TryCreateManagedRun(w, ok) ==
    IF ok
    THEN LET c == StartRun(w.runs, w.active, w.f.integration, "managed")
         IN [ f |-> [w.f EXCEPT !.managed_run = Len(c.runs), !.created = Append(@, Len(c.runs))],
              runs |-> c.runs, active |-> c.active, raised |-> FALSE ]
    ELSE [ f |-> [w.f EXCEPT !.tracking_failed = TRUE],
           runs |-> w.runs, active |-> w.active, raised |-> testing ]

TrackingError == Exc("Exception", "tracking")

\* Whether a call of the tracking client succeeds.
Oks == IF unreliable THEN BOOLEAN ELSE {TRUE}

\* What the patch implementation adds to the arguments: nothing, or a function
\* that exception_safe_function has not wrapped.
ExtraArgs(extra) == IF extra = "unsafe" THEN << PyFunction(100, FALSE) >> ELSE << >>

\* _validate_args(args, kwargs, og_args, og_kwargs) in call_original: the
\* caller's argument is the integer x and the closure is called with og.x and
\* what the patch implementation adds.
ValidArgs(x, og) ==
    ValidateArgs(<< PyInt(x, x) >>, << >>, << PyInt(og.x, og.x) >> \o ExtraArgs(og.extra), << >>)

\* Mutant of ValidAutologgingRun: the tag of the run is not checked.
ValidAutologgingRun_StatusOnly(rs, integ, run) == IsTerminated(rs[run].status)

\* _validate_autologging_run(autologging_integration, run_id)
ValidAutologgingRun(rs, integ, run) ==
    /\ rs[run].tag = integ
    /\ IsTerminated(rs[run].status)

\* Mutant of ShouldSkip: a failed ambient session does not skip.
ShouldSkip_IgnoresFailedSession(active_session_state, run_is_active, session_is_active, disabled, exclusive, globally_disabled) ==
    \/ disabled
    \/ (run_is_active /\ ~session_is_active /\ exclusive)
    \/ globally_disabled

\* The skip condition of safe_patch_function.
ShouldSkip(active_session_state, run_is_active, session_is_active, disabled, exclusive, globally_disabled) ==
    LET user_created_fluent_run_is_active == run_is_active /\ ~session_is_active
        active_session_failed == session_is_active /\ active_session_state = "failed"
    IN \/ active_session_failed
       \/ disabled
       \/ (user_created_fluent_run_is_active /\ exclusive)
       \/ globally_disabled

\* The notifications of the AutologgingEventLogger.
EventNames == {"patch_start", "patch_success", "patch_error",
               "original_start", "original_success", "original_error"}

\* Mutant of LogEvent: the exception of a notification that fails is not caught
\* and reaches call_original's handler.
LogEvent_Unhandled(f, name) ==
    IF name \in failing_events
    THEN [f EXCEPT !.failed_during_original = TRUE]
    ELSE [f EXCEPT !.events = Append(@, name)]

\* try_log_autologging_event(log_fn, ...): the notification is delivered, or
\* log_fn raises an exception, which is caught and logged at debug level.
LogEvent(f, name) ==
    IF name \in failing_events
    THEN f
    ELSE [f EXCEPT !.events = Append(@, name)]

\* ---------------------------------------------------------------- initial state
Start(threads, failing) ==
    /\ testing \in BOOLEAN
    /\ original \in {o \in [OgX -> UNION {OrigOutcomes(x) : x \in OgX}] :
                        \A x \in OgX : o[x] \in OrigOutcomes(x)}
    /\ live = threads
    /\ failing_events \in failing
    /\ safe_calls = << >>
    /\ wrapped = << >>
    /\ validated = << >>
    /\ patches = << >>
    /\ gorilla = << >>
    /\ registry_op = [op |-> "none"]
    /\ stacks = [t \in Threads |-> << >>]
    /\ session = None
    /\ sessions = << >>
    /\ \E user_run \in BOOLEAN :
        LET c == IF user_run THEN StartRun(<< >>, << >>, "-", "user")
                             ELSE [runs |-> << >>, active |-> << >>]
        IN runs = c.runs /\ active = c.active
    /\ done = NoFrame
    /\ ncalls = 0
    /\ unreliable \in BOOLEAN

\* One thread calls the patched functions.
Init == Start({"t1"}, {{}})

\* ---------------------------------------------------------------- the guarded call
\* Code that makes a guarded call: the user's program (empty stack), or an
\* original function that is running (a training routine that calls another
\* patched routine).
CanCall(t, depth, calls) ==
    /\ t \in live
    /\ ncalls < calls
    /\ Depth(t) < depth
    /\ Depth(t) > 0 => Top(t).pc = "original"

\* The patches a guarded call is drawn from, as [manage_run, patch_is_class]:
\* every kind for an outermost call, a plain function for a nested one.
PatchKinds(t) ==
    IF Depth(t) = 0 THEN [manage_run : BOOLEAN, patch_is_class : BOOLEAN]
    ELSE {[manage_run |-> FALSE, patch_is_class |-> FALSE]}

\* safe_patch_function, from its first line to the skip decision, for an
\* integration whose "silent" configuration is one of silents.
EnterWith(t, integs, depth, calls, silents) ==
    /\ CanCall(t, depth, calls)
    /\ \E integ \in integs, x \in UserArgs, kind \in PatchKinds(t), silent \in silents,
          disabled \in BOOLEAN, exclusive \in BOOLEAN, globally_disabled \in BOOLEAN :
        LET entry == [ disabled |-> disabled, exclusive |-> exclusive,
                       globally_disabled |-> globally_disabled,
                       silent |-> silent,
                       session |-> session,
                       session_state |-> IF session = None THEN "-" ELSE sessions[session].state,
                       session_writes |-> IF session = None THEN 0 ELSE sessions[session].writes,
                       ordinal |-> ncalls + 1,
                       run |-> ActiveRun(active),
                       sessions |-> Len(sessions) ]
            skip == ShouldSkip(entry.session_state, ActiveRun(active) # None, session # None,
                               disabled, exclusive, globally_disabled)
            f == [NewFrame(integ, x, kind.manage_run, kind.patch_is_class, entry) EXCEPT
                    !.preexisting_run_for_testing = IF testing THEN ActiveRun(active) ELSE None,
                    !.pc = IF skip THEN "original" ELSE "session",
                    !.warnings = IF skip THEN NormalWarnings ELSE @,
                    !.site = IF skip THEN "skip" ELSE "-"]
        IN /\ kind.manage_run => Len(runs) < MaxRuns
           /\ stacks' = Push(t, f)
    /\ ncalls' = ncalls + 1
    /\ done' = NoFrame
    /\ RegistryUntouched
    /\ UNCHANGED <<outside, unreliable, testing, original, live, session, sessions, runs, active>>

\* The same for an integration configured with the default, silent=False.
Enter(t, integs, depth, calls) == EnterWith(t, integs, depth, calls, {FALSE})

\* _AutologgingSessionManager.start_session, entered, and the patch-start event.
StartSession(t) ==
    /\ t \in live /\ Depth(t) > 0 /\ Top(t).pc = "session"
    /\ LET f == Top(t)
           prev_session == session
           sid == IF prev_session = None THEN Len(sessions) + 1 ELSE prev_session
       IN /\ sessions' = IF prev_session = None
                         THEN Append(sessions, [integration |-> f.integration, state |-> "running",
                                               writes |-> 0, before |-> "-"])
                         ELSE sessions
          /\ session' = sid
          /\ stacks' = SetTop(t, LogEvent([f EXCEPT !.sid = sid, !.owns = (prev_session = None),
                                                   !.pc = "call_patch"], "patch_start"))
    /\ done' = NoFrame
    /\ RegistryUntouched
    /\ UNCHANGED <<outside, unreliable, testing, original, live, runs, active, ncalls>>

\* Mutant of SetState: the state is never written.
SetState_Never(ses, sid, st) == ses

\* AutologgingSession.state = st (writes and before are history: the number of
\* assignments and the state the last one replaced)
SetState(ses, sid, st) ==
    [ses EXCEPT ![sid].state = st, ![sid].writes = @ + 1, ![sid].before = ses[sid].state]

\* Mutants of Completed: the session is cleared by every call that ends, or
\* by none.
Completed_AlwaysClears(t, f, out) ==
    /\ stacks' = Pop(t)
    /\ done' = [f EXCEPT !.out = out, !.pc = "done"]
    /\ session' = None

Completed_NeverClears(t, f, out) ==
    /\ stacks' = Pop(t)
    /\ done' = [f EXCEPT !.out = out, !.pc = "done"]
    /\ session' = session

\* The guarded call ends with outcome out: its frame is popped and, when the
\* call owns the session, start_session's finally clause clears it.
Completed(t, f, out) ==
    /\ stacks' = Pop(t)
    /\ done' = [f EXCEPT !.out = out, !.pc = "done"]
    /\ session' = IF f.owns THEN None ELSE session

\* PatchFunction.__call__'s handler: self._on_exception(e), which for
\* PatchWithManagedRun ends the managed run as FAILED and then calls the user's
\* _on_exception; whatever happens in it, e is raised again afterwards.
OnException(w, ok) ==
    LET hook(v) == [v EXCEPT !.f.on_exception_calls = @ + 1]
    IN IF w.f.manage_run /\ w.f.managed_run # None
       THEN LET a == TryEndRun(w, "FAILED", ok)
            IN IF a.raised THEN a ELSE hook(a)
       ELSE hook([f |-> w.f, runs |-> w.runs, active |-> w.active, raised |-> FALSE])

\* What the user's _on_exception raises when it fails.
HookError == Exc("Exception", "on_exception")

\* Mutant of RaisedAfterOnException: a failure of _on_exception replaces e.
RaisedAfterOnException_HookWins(f, e) == IF f.on_exception_raises THEN HookError ELSE e

\* PatchFunction.__call__: "try: self._on_exception(e) finally: raise e"
RaisedAfterOnException(f, e) == e

\* Whether the user's _on_exception, called for uout, raises.
HookOutcomes(f, uout) == IF f.patch_is_class /\ uout.k = "exc" THEN BOOLEAN ELSE {FALSE}

\* The patch function called by safe_patch_function is a PatchFunction class
\* (PatchWithManagedRun when manage_run): uout is how the user's
\* _patch_implementation ended.  The result is [f, runs, active, out].
ClassExit(w, uout, ok1, ok2) ==
    LET with(a, o) == [f |-> a.f, runs |-> a.runs, active |-> a.active, out |-> o]
    IN IF uout.k = "ret"
       THEN IF w.f.manage_run /\ w.f.managed_run # None
            THEN LET a == TryEndRun(w, "FINISHED", ok1)
                 IN IF a.raised THEN with(OnException(a, ok2), TrackingError) ELSE with(a, uout)
            ELSE with(w, uout)
       ELSE with(OnException(w, ok1), RaisedAfterOnException(w.f, uout))

\* The patch function is a function (patch_with_managed_run when manage_run).
FuncExit(w, uout, ok1) ==
    LET with(a, o) == [f |-> a.f, runs |-> a.runs, active |-> a.active, out |-> o]
    IN IF w.f.manage_run /\ w.f.managed_run # None
       THEN LET a == TryEndRun(w, IF uout.k = "ret" THEN "FINISHED" ELSE "FAILED", ok1)
            IN with(a, IF a.raised THEN TrackingError ELSE uout)
       ELSE with(w, uout)

\* Mutants of the three definitions below: every exception is raised to the
\* caller, only test mode raises, the fallback always runs, the patch
\* implementation's value is returned.
Reraise_Always(f) == TRUE
Reraise_TestingOnly(f) == testing
ReturnsCaptured_Never(f) == FALSE
ReturnValue_OfPatch(f, pout) == pout.v

\* Whether the exception caught around the patch function is raised to the caller:
\* "if failed_during_original or is_testing(): raise"
Reraise(f) == f.failed_during_original \/ testing

\* "if original_has_been_called: return original_result", else the fallback
ReturnsCaptured(f) == f.original_has_been_called

\* The value safe_patch_function returns once original has been called; pout is
\* what the patch function returned or raised.
ReturnValue(f, pout) == f.original_result

\* Mutant of ChecksRuns: the runs are never checked.
ChecksRuns_Never(f) == FALSE

\* "if is_testing() and not preexisting_run_for_testing": the call checks the
\* runs the patch function left
ChecksRuns(f) == testing /\ f.preexisting_run_for_testing = None

\* safe_patch_function after the patch function returned or raised pout: the
\* session state, the classification of the exception, the test-mode checks
\* and the return.  The result is [f, sessions, complete, out].
AfterPatch(f, ses, rs, act, pout) ==
    LET res(f1, ses1, c, o) == [f |-> f1, sessions |-> ses1, complete |-> c, out |-> o]
        post(f1, ses1) ==
            IF ChecksRuns(f1) /\ ActiveRun(act) # None
            THEN res(f1, ses1, TRUE, Exc("AssertionError", "leaked_run"))
            ELSE IF /\ ChecksRuns(f1)
                    /\ f1.patch_function_run_for_testing # None
                    /\ ~ValidAutologgingRun(rs, f1.integration, f1.patch_function_run_for_testing)
            THEN res(f1, ses1, TRUE, Exc("AssertionError", "validate_run"))
            ELSE IF ReturnsCaptured(f1)
            THEN res(f1, ses1, TRUE, Ret(ReturnValue(f1, pout)))
            ELSE res([f1 EXCEPT !.pc = "original", !.site = "fallback",
                                !.og = [x |-> f1.args, extra |-> "none"]], ses1, FALSE, Pending)
    IN IF pout.k = "ret"
       THEN LET ses1 == SetState(ses, f.sid, "succeeded")
            IN post(LogEvent([f EXCEPT !.notified_state = ses1[f.sid].state], "patch_success"), ses1)
       ELSE IF IsException(pout)
       THEN IF Reraise(f)
            THEN res(f, SetState(ses, f.sid, "failed"), TRUE, pout)
            ELSE post(LogEvent(f, "patch_error"), SetState(ses, f.sid, "failed"))
       ELSE res(f, ses, TRUE, pout)

\* The patch function has ended: x is [f, runs, active, out].
LeaveWrapped(t, x) ==
    LET r == AfterPatch([x.f EXCEPT !.wrapper_out = x.out], sessions, x.runs, x.active, x.out)
    IN /\ runs' = x.runs
       /\ active' = x.active
       /\ sessions' = r.sessions
       /\ IF r.complete
          THEN Completed(t, r.f, r.out)
          ELSE /\ stacks' = SetTop(t, r.f)
               /\ session' = session
               /\ done' = NoFrame

\* The user's patch implementation has ended with uout.
LeavePatch(t, f, uout) ==
    \E ok1 \in Oks, ok2 \in Oks, hook_raises \in HookOutcomes(f, uout) :
        LET w == [f |-> [f EXCEPT !.patch_out = uout, !.on_exception_raises = hook_raises],
                  runs |-> runs, active |-> active]
        IN LeaveWrapped(t, IF f.patch_is_class THEN ClassExit(w, uout, ok1, ok2)
                                               ELSE FuncExit(w, uout, ok1))

\* Mutant of ShouldCreateRun: a run is created whether or not one is active.
ShouldCreateRun_Always(f, act) == f.manage_run

\* with_managed_run: "if not mlflow.active_run()" a managed run is created
ShouldCreateRun(f, act) == f.manage_run /\ ActiveRun(act) = None

\* safe_patch_function calls the patch function; with manage_run, the wrapper
\* first creates a run when none is active.
InvokePatch(t) ==
    /\ t \in live /\ Depth(t) > 0 /\ Top(t).pc = "call_patch"
    /\ LET f == [Top(t) EXCEPT !.patch_calls = @ + 1, !.pc = "patch"]
           w == [f |-> f, runs |-> runs, active |-> active]
       IN IF ShouldCreateRun(f, active)
          THEN /\ Len(runs) < MaxRuns
               /\ \E ok \in Oks :
                    LET c == TryCreateManagedRun(w, ok)
                    IN IF c.raised
                       THEN LeaveWrapped(t, IF f.patch_is_class
                                THEN [OnException(c, TRUE) EXCEPT !.raised = TRUE] @@ [out |-> TrackingError]
                                ELSE c @@ [out |-> TrackingError])
                       ELSE /\ stacks' = SetTop(t, c.f)
                            /\ runs' = c.runs
                            /\ active' = c.active
                            /\ done' = NoFrame
                            /\ UNCHANGED <<session, sessions>>
          ELSE /\ stacks' = SetTop(t, f)
               /\ done' = NoFrame
               /\ UNCHANGED <<session, sessions, runs, active>>
    /\ RegistryUntouched
    /\ UNCHANGED <<outside, unreliable, testing, original, live, ncalls>>

InPatch(t) == t \in live /\ Depth(t) > 0 /\ Top(t).pc = "patch"

\* The closure raised e into the patch implementation, which catches it and
\* goes on, or lets it pass.
ClosureRaises(t, f, e) ==
    \E catches \in BOOLEAN :
        IF catches
        THEN /\ stacks' = SetTop(t, [f EXCEPT !.caught = @ \cup {e}, !.pc = "patch"])
             /\ done' = NoFrame
             /\ UNCHANGED <<session, sessions, runs, active>>
        ELSE LeavePatch(t, f, e)

\* call_original(*og_args), up to the invocation of original.
CallOriginal(t) ==
    /\ InPatch(t)
    /\ Top(t).closure_calls < MaxClosureCalls
    /\ \E og \in OgArgs :
        LET f == LogEvent([Top(t) EXCEPT !.closure_calls = @ + 1], "original_start")
        IN IF testing /\ ~ValidArgs(f.args, og)
           THEN ClosureRaises(t, LogEvent([f EXCEPT !.failed_during_original = TRUE], "original_error"),
                              Exc("AssertionError", "validate_args"))
           ELSE /\ stacks' = SetTop(t, [f EXCEPT
                        !.patch_function_run_for_testing = IF testing THEN ActiveRun(active) ELSE @,
                        !.closure_runs = Append(@, ActiveRun(active)),
                        !.original_has_been_called = TRUE,
                        !.warnings = NormalWarnings,
                        !.og = og, !.pc = "original", !.site = "closure"])
                /\ done' = NoFrame
                /\ UNCHANGED <<session, sessions, runs, active>>
    /\ RegistryUntouched
    /\ UNCHANGED <<outside, unreliable, testing, original, live, ncalls>>

\* The original function ends with out: on the skip path and in the fallback the
\* guarded call ends with its outcome; in the closure the result is captured, or
\* the failure is recorded and raised into the patch implementation ("except
\* Exception" does not catch an interrupt, which passes without a notification).
OriginalEnds(t, out) ==
    /\ t \in live /\ Depth(t) > 0 /\ Top(t).pc = "original"
    /\ LET ran == [Top(t) EXCEPT
                      !.invocations = Append(@, [site |-> Top(t).site, og |-> Top(t).og, out |-> out]),
                      !.invocation_warnings = Append(@, Top(t).warnings)]
           \* the scope opened around original in call_original is left
           f == IF ran.site = "closure" THEN [ran EXCEPT !.warnings = OuterWarnings(ran.entry.silent)]
                                       ELSE ran
       IN IF f.site \in {"skip", "fallback"}
          THEN /\ Completed(t, f, out)
               /\ UNCHANGED <<sessions, runs, active>>
          ELSE IF out.k = "ret"
          THEN /\ stacks' = SetTop(t, LogEvent([f EXCEPT !.original_result = out.v, !.pc = "patch"],
                                                "original_success"))
               /\ done' = NoFrame
               /\ UNCHANGED <<session, sessions, runs, active>>
          ELSE IF IsException(out)
          THEN ClosureRaises(t, LogEvent([f EXCEPT !.failed_during_original = TRUE], "original_error"), out)
          ELSE ClosureRaises(t, f, out)
    /\ RegistryUntouched
    /\ UNCHANGED <<outside, unreliable, testing, original, live, ncalls>>

\* The original function returns or raises what its table says.
OriginalReturns(t) == OriginalEnds(t, original[Top(t).og.x])

\* The original function is interrupted while it runs (a KeyboardInterrupt, which
\* is no Exception).
OriginalInterrupted(t) == OriginalEnds(t, Exc("KeyboardInterrupt", "original"))

\* The patch implementation returns.
PatchReturn(t) ==
    /\ InPatch(t)
    /\ \E v \in PatchReturns(Top(t)) : LeavePatch(t, Top(t), Ret(v))
    /\ RegistryUntouched
    /\ UNCHANGED <<outside, unreliable, testing, original, live, ncalls>>

\* The patch implementation raises.
PatchRaise(t) ==
    /\ InPatch(t)
    /\ \E e \in PatchRaises : LeavePatch(t, Top(t), e)
    /\ RegistryUntouched
    /\ UNCHANGED <<outside, unreliable, testing, original, live, ncalls>>

\* The patch implementation starts a run of its own (nested when one is active).
\* As call_original assumes, it does so before it calls the closure or not at all.
PatchStartRun(t) ==
    /\ InPatch(t)
    /\ Top(t).closure_calls = 0
    /\ Len(runs) < MaxRuns
    /\ \E tag \in {Top(t).integration, "-"} :
        LET c == StartRun(runs, active, tag, "patch")
        IN runs' = c.runs /\ active' = c.active
    /\ stacks' = SetTop(t, [Top(t) EXCEPT !.patch_touched_runs = TRUE])
    /\ done' = NoFrame
    /\ RegistryUntouched
    /\ UNCHANGED <<outside, unreliable, testing, original, live, session, sessions, ncalls>>

\* The patch implementation ends the active run.
PatchEndRun(t) ==
    /\ InPatch(t)
    /\ active # << >>
    /\ LET e == EndRun(runs, active, "FINISHED")
       IN runs' = e.runs /\ active' = e.active
    /\ stacks' = SetTop(t, [Top(t) EXCEPT !.patch_touched_runs = TRUE])
    /\ done' = NoFrame
    /\ RegistryUntouched
    /\ UNCHANGED <<outside, unreliable, testing, original, live, session, sessions, ncalls>>

\* One guarded call made by the user's program, with a tracking client that may
\* fail and a patch implementation that may start and end runs.
Next ==
    \E t \in Threads :
        \/ Enter(t, {"sklearn"}, 1, 1)
        \/ StartSession(t)
        \/ InvokePatch(t)
        \/ CallOriginal(t)
        \/ OriginalReturns(t)
        \/ PatchReturn(t)
        \/ PatchRaise(t)
        \/ PatchStartRun(t)
        \/ PatchEndRun(t)

Spec == Init /\ [][Next]_vars

\* Guarded calls made one after the other and nested in the original function of
\* a guarded call, with a reliable tracking client.
InitNested == Init /\ ~unreliable

NextNested ==
    \E t \in Threads :
        \/ Enter(t, {"sklearn"}, MaxDepth, MaxCalls)
        \/ StartSession(t)
        \/ InvokePatch(t)
        \/ CallOriginal(t)
        \/ OriginalReturns(t)
        \/ PatchReturn(t)
        \/ PatchRaise(t)

SpecNested == InitNested /\ [][NextNested]_vars

\* One guarded call with an event logger of which any notifications may raise.
\* The tracking client is reliable.
FailingSets == SUBSET EventNames

InitEvents == Start({"t1"}, FailingSets) /\ ~unreliable

NextEvents ==
    \E t \in Threads :
        \/ Enter(t, {"sklearn"}, 1, 1)
        \/ StartSession(t)
        \/ InvokePatch(t)
        \/ CallOriginal(t)
        \/ OriginalReturns(t)
        \/ PatchReturn(t)
        \/ PatchRaise(t)

SpecEvents == InitEvents /\ [][NextEvents]_vars

\* One guarded call whose original function may be interrupted, with a reliable
\* event logger and a reliable tracking client.
InitInterrupt == Start({"t1"}, {{}}) /\ ~unreliable

NextInterrupt ==
    \E t \in Threads :
        \/ Enter(t, {"sklearn"}, 1, 1)
        \/ StartSession(t)
        \/ InvokePatch(t)
        \/ CallOriginal(t)
        \/ OriginalReturns(t)
        \/ OriginalInterrupted(t)
        \/ PatchReturn(t)
        \/ PatchRaise(t)

SpecInterrupt == InitInterrupt /\ [][NextInterrupt]_vars

\* One guarded call of an integration that is or is not in silent mode, with a
\* reliable event logger and a reliable tracking client.
EnterSilent(t) == EnterWith(t, {"sklearn"}, 1, 1, BOOLEAN)

InitWarnings == Start({"t1"}, {{}}) /\ ~unreliable

NextWarnings ==
    \E t \in Threads :
        \/ EnterSilent(t)
        \/ StartSession(t)
        \/ InvokePatch(t)
        \/ CallOriginal(t)
        \/ OriginalReturns(t)
        \/ PatchReturn(t)
        \/ PatchRaise(t)

SpecWarnings == InitWarnings /\ [][NextWarnings]_vars

\* ---------------------------------------------------------------- exception_safe_function
\* How a function wrapped by exception_safe_function ends when called with x.
FunctionOutcomes(x) ==
    {Ret(x * 2), Ret(None), Exc("Exception", "function"), Exc("KeyboardInterrupt", "function")}

\* Mutant of SafeOutcome: the exception is swallowed in test mode too.
SafeOutcome_AlwaysSwallows(fout) == IF IsException(fout) THEN Ret(None) ELSE fout

\* safe_function: "try: return function(...) except Exception: if is_testing():
\* raise, else warn" (and return None)
SafeOutcome(fout) ==
    IF IsException(fout)
    THEN IF testing THEN fout ELSE Ret(None)
    ELSE fout

\* safe_function(*args, **kwargs): one call of function with the same arguments
SafeFunction(x, fout) ==
    [args |-> x, function_calls |-> << x >>, function_out |-> fout, out |-> SafeOutcome(fout)]

\* A call of a function wrapped by exception_safe_function.
CallSafeFunction ==
    /\ Len(safe_calls) < MaxCalls
    /\ \E x \in OgX : \E fout \in FunctionOutcomes(x) :
          safe_calls' = Append(safe_calls, SafeFunction(x, fout))
    /\ UNCHANGED <<testing, original, live, stacks, session, sessions, runs, active, done,
                   ncalls, unreliable, failing_events, wrapped, validated, patches, gorilla, registry_op>>

InitSafe == Start({"t1"}, {{}}) /\ ~unreliable /\ runs = << >>

NextSafe == CallSafeFunction

SpecSafe == InitSafe /\ [][NextSafe]_vars

\* ---------------------------------------------------------------- _validate_args
\* The objects passed as arguments: None, two equal integers that are different
\* objects, the boolean True (equal to 1, of another type), nan, an instance of
\* a plain class and one of a class with the ExceptionSafeClass metaclass, a
\* function without the exception_safe attribute and one with it.
Int1 == PyInt(1, 1)
Int1Copy == PyInt(2, 1)
PyTrue == PyBool(3, 1)
NaN == PyFloat(4, NaNValue)
UnsafeObject == PyInstance(5, "type")
SafeObject == PyInstance(6, "ExceptionSafeClass")
UnmarkedFunction == PyFunction(7, FALSE)
MarkedFunction == PyFunction(8, TRUE)
Int2 == PyInt(9, 2)

Atoms == {PyNone, Int1, Int1Copy, PyTrue, NaN, UnsafeObject, SafeObject,
          UnmarkedFunction, MarkedFunction, Int2}
Elements == {PyNone, Int1, NaN, MarkedFunction}
Few == {PyNone, Int1, MarkedFunction}
Keys == {"a", "b"}

Seqs(S, n) == UNION {[1..m -> S] : m \in 0..n}
Maps(S) == UNION {[K -> S] : K \in SUBSET Keys}
Containers(S, n) ==
    {PyList(x) : x \in Seqs(S, n)} \cup {PyTuple(x) : x \in Seqs(S, n)}
        \cup {PyDict(m) : m \in Maps(S)}

Call(ua, uk, ca, ck) ==
    [user_call_args |-> ua, user_call_kwargs |-> uk,
     autologging_call_args |-> ca, autologging_call_kwargs |-> ck]

\* The patch implementation forwards what the caller passed: at most n
\* positional arguments, lists and tuples of at most n elements.
SameForwarded(n) ==
    LET Values == Atoms \cup Containers(Elements, n)
    IN {Call(a, << >>, a, << >>) : a \in Seqs(Values, n)}
         \cup {Call(<< >>, k, << >>, k) : k \in Maps(Values)}
         \cup {Call(a, k, a, k) : a \in Seqs(Atoms, 1), k \in Maps(Atoms)}

\* The patch implementation calls the closure with arguments of its own.
OtherForwarded(n) ==
    LET Values == Atoms \cup Containers(Few, n)
    IN {Call(ua, << >>, ca, << >>) : ua \in Seqs(Atoms, n), ca \in Seqs(Atoms, n)}
         \cup {Call(ua, << >>, ca, << >>) : ua \in Seqs(Values, 1), ca \in Seqs(Values, 1)}
         \cup {Call(<< >>, uk, << >>, ck) : uk \in Maps(Elements), ck \in Maps(Atoms)}

\* The calls of the specification's examples: an unsafe object or a marked
\* function added to no argument and to the arguments 1, 2.
ExampleCalls ==
    {Call(<< >>, << >>, << new >>, << >>) : new \in {UnsafeObject, SafeObject}}
        \cup {Call(<< Int1, Int2 >>, << >>, << Int1, Int2, new >>, << >>) :
                 new \in {UnsafeObject, MarkedFunction}}

Forwardings(n) == SameForwarded(n) \cup OtherForwarded(n) \cup ExampleCalls

\* A call of _validate_args.
CallValidateArgs(calls) ==
    /\ validated = << >>
    /\ \E c \in calls :
          validated' = << c @@ [ok |-> ValidateArgs(c.user_call_args, c.user_call_kwargs,
                                     c.autologging_call_args, c.autologging_call_kwargs)] >>
    /\ UNCHANGED <<testing, original, live, stacks, session, sessions, runs, active, done,
                   ncalls, unreliable, failing_events, safe_calls, wrapped, patches, gorilla, registry_op>>

\* _validate_args called in test mode, as call_original calls it.
InitValidate ==
    /\ Start({"t1"}, {{}}) /\ testing /\ ~unreliable /\ runs = << >>
    /\ \A x \in OgX : original[x].k = "ret"

NextValidate == CallValidateArgs(Forwardings(MaxLen))

SpecValidate == InitValidate /\ [][NextValidate]_vars

\* ---------------------------------------------------------------- the exception_safe attribute
\* exception_safe_function(function): "if is_testing(): setattr(function,
\* 'exception_safe', True)", and update_wrapper_extended gives safe_function,
\* a new function object, the attributes function has.
ExceptionSafeFunction(function, id) ==
    LET marked == [function EXCEPT !.exception_safe = IF testing THEN TRUE ELSE @]
    IN [mode |-> testing, function |-> marked, wrapper |-> PyFunction(id, marked.exception_safe)]

\* A call of exception_safe_function, for a function never wrapped before.
WrapFunction ==
    /\ Len(wrapped) < MaxCalls
    /\ wrapped' = Append(wrapped, ExceptionSafeFunction(PyFunction(20 + Len(wrapped), FALSE),
                                                         10 + Len(wrapped)))
    /\ UNCHANGED <<testing, original, live, stacks, session, sessions, runs, active, done,
                   ncalls, unreliable, failing_events, safe_calls, validated, patches, gorilla, registry_op>>

\* MLFLOW_AUTOLOGGING_TESTING is set or unset in the environment: is_testing()
\* reads it at each call.
SetTestMode ==
    /\ testing' = ~testing
    /\ UNCHANGED <<original, live, stacks, session, sessions, runs, active, done, ncalls,
                   unreliable, failing_events, safe_calls, wrapped, validated, patches, gorilla, registry_op>>

\* The patch implementation adds a wrapped function to the arguments of the
\* caller, as a positional argument, as a keyword argument, or in a list.
WrappedForwardings ==
    UNION {{Call(<< Int1 >>, << >>, << Int1, wrapped[i].wrapper >>, << >>),
            Call(<< >>, << >>, << >>, [k \in {"a"} |-> wrapped[i].wrapper]),
            Call(<< >>, << >>, << PyList(<< wrapped[i].wrapper >>) >>, << >>)} : i \in DOMAIN wrapped}

\* call_original's validation, which runs in test mode, of a call that adds a
\* wrapped function.
ValidateWrapped ==
    /\ testing
    /\ CallValidateArgs(WrappedForwardings)

\* The patch implementation adds to the arguments of the caller the function
\* that was handed to exception_safe_function, not the one it returned.
UnwrappedForwardings ==
    UNION {{Call(<< Int1 >>, << >>, << Int1, wrapped[i].function >>, << >>),
            Call(<< >>, << >>, << >>, [k \in {"a"} |-> wrapped[i].function]),
            Call(<< >>, << >>, << PyList(<< wrapped[i].function >>) >>, << >>)} : i \in DOMAIN wrapped}

\* call_original's validation, in test mode, of a call that adds it.
ValidateUnwrapped ==
    /\ testing
    /\ CallValidateArgs(UnwrappedForwardings)

\* Functions are wrapped and passed as new arguments while the mode is switched.
InitWrap ==
    /\ Start({"t1"}, {{}}) /\ ~unreliable /\ runs = << >>

NextWrap == WrapFunction \/ SetTestMode \/ ValidateWrapped \/ ValidateUnwrapped

SpecWrap == InitWrap /\ [][NextWrap]_vars

\* Two threads, each making guarded calls of its own (not nested), with a
\* reliable tracking client and no run of the user.  The patches are plain
\* functions of an enabled integration that call the closure at most once, with
\* the caller's arguments.
InitThreads == Start(Threads, {{}}) /\ ~unreliable /\ runs = << >>

\* safe_patch_function entered for a plain patch function of an enabled,
\* non-exclusive integration.
EnterPlain(t) ==
    /\ Enter(t, {"sklearn"}, 1, MaxCalls)
    /\ ~Top(t)'.manage_run /\ ~Top(t)'.patch_is_class
    /\ ~Top(t)'.entry.disabled /\ ~Top(t)'.entry.globally_disabled
    /\ ~Top(t)'.entry.exclusive

\* call_original, called once by the patch implementation with the caller's
\* arguments.
CallOriginalOnce(t) ==
    /\ InPatch(t) /\ Top(t).closure_calls = 0
    /\ CallOriginal(t)
    /\ stacks'[t] # << >> => Top(t)'.og = [x |-> Top(t).args, extra |-> "none"]

NextThreads ==
    \E t \in Threads :
        \/ EnterPlain(t)
        \/ StartSession(t)
        \/ InvokePatch(t)
        \/ CallOriginalOnce(t)
        \/ OriginalReturns(t)
        \/ PatchReturn(t)
        \/ PatchRaise(t)

SpecThreads == InitThreads /\ [][NextThreads]_vars

\* ---------------------------------------------------------------- the patch registry
\* The names revert_patches is called with: the integrations and the name of
\* the fluent API, "mlflow".
Names == Integrations \cup {"mlflow"}

\* gorilla.apply(gorilla.Patch(...)): a new patch, applied
GorillaApply(g, integ) == Append(g, [integration |-> integ, applied |-> TRUE, reverts |-> 0])

\* gorilla.revert(patch)
GorillaRevert(patch) == [patch EXCEPT !.applied = FALSE, !.reverts = @ + 1]

\* _store_patch(autologging_integration, patch)
StorePatch(reg, integ, patch) ==
    IF integ \in DOMAIN reg
    THEN [reg EXCEPT ![integ] = @ \cup {patch}]
    ELSE [i \in DOMAIN reg \cup {integ} |-> IF i = integ THEN {patch} ELSE reg[i]]

\* _AUTOLOGGING_PATCHES.get(autologging_integration, [])
Recorded(reg, name) == IF name \in DOMAIN reg THEN reg[name] ELSE {}

\* Mutant of PopKey: the patches stay recorded.
PopKey_Keeps(reg, name) == reg

\* _AUTOLOGGING_PATCHES.pop(autologging_integration, None)
PopKey(reg, name) == [i \in DOMAIN reg \ {name} |-> reg[i]]

\* The registry before a call of safe_patch or revert_patches.
RegistryBefore == [patches |-> patches, gorilla |-> gorilla]

\* safe_patch(autologging_integration, destination, function_name,
\* patch_function), with a patch_function that passes its assertions: the patch
\* is applied and recorded.
SafePatch ==
    /\ Len(gorilla) < MaxPatches
    /\ \E integ \in Names :
          LET g == GorillaApply(gorilla, integ)
              new_patch == Len(g)
          IN /\ gorilla' = g
             /\ patches' = StorePatch(patches, integ, new_patch)
             /\ registry_op' = [op |-> "install", integration |-> integ, patch |-> new_patch,
                                before |-> RegistryBefore]
    /\ UNCHANGED <<outside, unreliable, testing, original, live, stacks, session, sessions,
                   runs, active, done, ncalls>>

\* revert_patches(autologging_integration)
RevertPatches ==
    /\ \E name \in Names :
          /\ gorilla' = [p \in DOMAIN gorilla |->
                            IF p \in Recorded(patches, name) THEN GorillaRevert(gorilla[p])
                                                             ELSE gorilla[p]]
          /\ patches' = PopKey(patches, name)
          /\ registry_op' = [op |-> "revert", integration |-> name, patch |-> 0,
                             before |-> RegistryBefore]
    /\ UNCHANGED <<outside, unreliable, testing, original, live, stacks, session, sessions,
                   runs, active, done, ncalls>>

\* A call of a function that safe_patch has patched for sklearn: a plain patch
\* function; the integration may be disabled.
CallPatched(t) ==
    /\ \E p \in DOMAIN gorilla : gorilla[p].integration = "sklearn" /\ gorilla[p].applied
    /\ Enter(t, {"sklearn"}, 1, 1)
    /\ ~Top(t)'.manage_run /\ ~Top(t)'.patch_is_class
    /\ ~Top(t)'.entry.globally_disabled /\ ~Top(t)'.entry.exclusive

\* Patches are installed and reverted, before, after and while a patched
\* function is called.
InitRegistry == Start({"t1"}, {{}}) /\ ~unreliable /\ runs = << >>

NextRegistry ==
    \/ SafePatch
    \/ RevertPatches
    \/ \E t \in Threads :
          \/ CallPatched(t)
          \/ StartSession(t)
          \/ InvokePatch(t)
          \/ CallOriginalOnce(t)
          \/ OriginalReturns(t)
          \/ PatchReturn(t)
          \/ PatchRaise(t)

SpecRegistry == InitRegistry /\ [][NextRegistry]_vars

\* ---------------------------------------------------------------- exclusive integrations
\* A call of a function patched for one of the integrations, with a plain patch
\* function; the integration is enabled and may be exclusive.
CallIntegration(t) ==
    /\ Enter(t, Integrations, MaxDepth, MaxCalls)
    /\ ~Top(t)'.manage_run /\ ~Top(t)'.patch_is_class
    /\ ~Top(t)'.entry.disabled /\ ~Top(t)'.entry.globally_disabled

\* Guarded calls of two integrations, one after the other and nested in the
\* original function of a guarded call, with or without a run of the user.
InitExclusive == Start({"t1"}, {{}}) /\ ~unreliable

NextExclusive ==
    \E t \in Threads :
        \/ CallIntegration(t)
        \/ StartSession(t)
        \/ InvokePatch(t)
        \/ CallOriginalOnce(t)
        \/ OriginalReturns(t)
        \/ PatchReturn(t)
        \/ PatchRaise(t)

SpecExclusive == InitExclusive /\ [][NextExclusive]_vars

\* ---------------------------------------------------------------- properties
\* The guarded call that has just completed is in done.
Done == done.pc = "done"
Skipped(f) == f.site = "skip"
Invocations(f) == {f.invocations[i] : i \in DOMAIN f.invocations}
OriginalError == Exc("Exception", "original")
PatchError == Exc("Exception", "patch")

\* The index of the last invocation of original through the closure that
\* returned, 0 when there is none.
LastReturned(f) ==
    LET R == {i \in DOMAIN f.invocations :
                f.invocations[i].site = "closure" /\ f.invocations[i].out.k = "ret"}
    IN IF R = {} THEN 0 ELSE CHOOSE i \in R : \A j \in R : j <= i

\* In test mode a failure of the tracking client is raised in place of whatever
\* the patch implementation did.
TrackingRaised(f) == testing /\ f.tracking_failed

Direct(f, site) == [site |-> site, og |-> [x |-> f.args, extra |-> "none"], out |-> original[f.args]]

C3_AsStated ==
    (Done /\ ~testing) => done.out = original[done.args]

\* A patch implementation that forwards the caller's arguments unchanged, catches
\* nothing the closure raises and raises no interrupt.
WellBehaved(f) ==
    /\ f.caught = {}
    /\ f.patch_out.cls # "KeyboardInterrupt"
    /\ \A i \in Invocations(f) : i.og = [x |-> f.args, extra |-> "none"]

\* C3, amended: in production mode, for every patch implementation that calls the
\* closure with the caller's arguments only, catches nothing the closure raises
\* and raises no interrupt, the guarded call returns what original(args) returns
\* or raises what original(args) raises.
C3_ProductionTransparency ==
    (Done /\ ~testing /\ WellBehaved(done)) => done.out = original[done.args]

C3_Witness ==
    /\ Done /\ ~testing /\ WellBehaved(done) /\ ~Skipped(done)
    /\ done.closure_calls = 2 /\ done.patch_out = PatchError
    /\ done.out = Ret(10)

\* C4 as stated: original is invoked at most once unless the patch implementation
\* calls the closure several times, and exactly once, with the caller's
\* arguments, when the patch implementation never calls the closure.
C4_AsStated ==
    Done => /\ Len(done.invocations) <= 1 \/ Len(done.invocations) <= done.closure_calls
            /\ done.closure_calls = 0 =>
                  /\ Len(done.invocations) = 1
                  /\ done.invocations[1].og.x = done.args

\* C4, amended: original is invoked at most once unless the patch implementation
\* calls the closure several times; when the patch implementation never calls the
\* closure, the orchestrator calls original exactly once with the caller's
\* arguments if the guarded call reaches its return step, and not at all if the
\* guarded call ends before by raising what the instrumentation raised.
C4_OriginalInvokedOnce ==
    Done => /\ Len(done.invocations) <= 1 \/ Len(done.invocations) <= done.closure_calls
            /\ done.closure_calls = 0 =>
                  IF done.out.k = "exc" /\ done.out.src # "original"
                  THEN done.invocations = << >> /\ (testing \/ done.out.cls = "KeyboardInterrupt")
                  ELSE \E site \in {"skip", "fallback"} : done.invocations = << Direct(done, site) >>

C4_Witness ==
    /\ Done /\ ~Skipped(done) /\ done.closure_calls = 0
    /\ done.patch_out.k = "ret" /\ Len(done.invocations) = 1

\* C5: a non-skipped guarded call that returns normally returns, when original
\* was invoked through the closure, the result captured from the closure (that of
\* the last invocation that returned; None when none did), whatever the patch
\* implementation returned, and original is not invoked again; otherwise it
\* returns the result of the one direct call original(args).
C5_ReturnsCapturedResult ==
    (Done /\ ~Skipped(done) /\ done.out.k = "ret")
        => IF \E i \in Invocations(done) : i.site = "closure"
           THEN /\ done.out.v = IF LastReturned(done) = 0 THEN None
                                 ELSE done.invocations[LastReturned(done)].out.v
                /\ \A i \in Invocations(done) : i.site = "closure"
           ELSE /\ done.invocations = << Direct(done, "fallback") >>
                /\ done.out = original[done.args]

C5_Witness ==
    /\ Done /\ ~Skipped(done) /\ done.out = Ret(10)
    /\ done.patch_out = Ret(11)
    /\ \E i \in Invocations(done) : i.site = "closure"

\* Scenario A: the patch implementation is f(original, x) = original(x) + 1,
\* called with x = 5, and original(x) = x * 2.
ScenarioA(f) ==
    /\ ~Skipped(f) /\ f.args = 5 /\ ~f.patch_touched_runs /\ ~f.tracking_failed
    /\ f.closure_calls = 1
    /\ f.invocations = << [site |-> "closure", og |-> [x |-> 5, extra |-> "none"], out |-> Ret(5 * 2)] >>
    /\ f.patch_out = Ret(5 * 2 + 1)

\* C6 as stated: in scenario A the guarded call returns the patch
\* implementation's value, 11, and original is invoked once.
C6_AsStated ==
    (Done /\ ScenarioA(done)) => done.out = Ret(11) /\ Len(done.invocations) = 1

\* C6, amended: in scenario A the guarded call returns the result of original
\* captured by the closure, 10, not the patch implementation's value 11, and
\* original is invoked exactly once.
C6_ScenarioAReturnsOriginalResult ==
    (Done /\ ScenarioA(done)) => done.out = Ret(10) /\ Len(done.invocations) = 1

C6_Witness == Done /\ ScenarioA(done) /\ done.out = Ret(10) /\ testing

\* Scenario C: the patch implementation calls original(x), which succeeds, and
\* then raises RuntimeError.
ScenarioC(f) ==
    /\ ~Skipped(f) /\ f.closure_calls = 1 /\ ~f.tracking_failed
    /\ f.invocations = << [site |-> "closure", og |-> [x |-> f.args, extra |-> "none"], out |-> Ret(f.args * 2)] >>
    /\ f.patch_out = PatchError

\* C7 as stated: in scenario C the guarded call raises RuntimeError in production
\* and in test mode, and original is invoked exactly once.
C7_AsStated ==
    (Done /\ ScenarioC(done)) => done.out = PatchError /\ Len(done.invocations) = 1

\* C7, amended: in scenario C the guarded call raises RuntimeError in test mode;
\* in production mode RuntimeError is swallowed and the guarded call returns the
\* captured result of original; in both modes original is invoked exactly once.
C7_ScenarioC ==
    (Done /\ ScenarioC(done))
        => /\ Len(done.invocations) = 1
           /\ done.out = IF testing THEN PatchError ELSE Ret(done.args * 2)

C7_Witness == Done /\ ScenarioC(done) /\ ~testing /\ done.out = Ret(10)

\* The patch implementation raised an exception of its own after the latest
\* invocation of original, made through the closure, returned.
RaisedAfterOriginalReturned(f) ==
    /\ f.patch_out = PatchError
    /\ f.invocations # << >>
    /\ f.invocations[Len(f.invocations)].site = "closure"
    /\ f.invocations[Len(f.invocations)].out.k = "ret"

SkipsAtEntry(e) ==
    \/ e.session # None /\ e.session_state = "failed"
    \/ e.disabled
    \/ e.globally_disabled
    \/ e.run # None /\ e.session = None /\ e.exclusive

\* C9: when, at entry, the active session is failed, the integration is disabled,
\* autologging is globally disabled, or a run is active with no session and the
\* integration is exclusive, the guarded call invokes no patch implementation,
\* starts and writes no session, emits no event and calls original exactly once
\* with the caller's arguments, ending as original ended; in every other case it
\* invokes the patch implementation exactly once.
C9_SkipFastPath ==
    Done => IF SkipsAtEntry(done.entry)
            THEN /\ done.patch_calls = 0 /\ done.closure_calls = 0
                 /\ done.events = << >>
                 /\ done.sid = None /\ ~done.owns
                 /\ done.invocations = << Direct(done, "skip") >>
                 /\ done.out = original[done.args]
                 /\ done.entry.ordinal = ncalls =>
                       /\ session = done.entry.session
                       /\ Len(sessions) = done.entry.sessions
                       /\ session # None =>
                             /\ sessions[session].state = done.entry.session_state
                             /\ sessions[session].writes = done.entry.session_writes
            ELSE done.patch_calls = 1

C9_Witness ==
    /\ Done /\ Skipped(done)
    /\ done.entry.session_state = "failed"
    /\ ~done.entry.disabled /\ ~done.entry.globally_disabled /\ ~done.entry.exclusive
    /\ session # None /\ sessions[session].state = "failed"
    /\ done.out = Ret(10)

\* The frames whose patch function has ended: the completed call and a call in
\* its fallback.
PatchEnded(f) == f.pc = "done" \/ (f.pc = "original" /\ f.site = "fallback")

\* with_managed_run entered with no active run, a tracking client that works and
\* a patch implementation that starts and ends no run itself: one run, tagged
\* with the integration, was created and it was ended once, as FINISHED when the
\* patch implementation returned and as FAILED when it raised.
ManagedRunEnded(f) ==
    (/\ f.manage_run /\ f.patch_calls = 1 /\ f.entry.run = None
     /\ ~f.tracking_failed /\ ~f.patch_touched_runs)
        => \E r \in DOMAIN runs :
              LET status == IF f.patch_out.k = "ret" THEN "FINISHED" ELSE "FAILED"
              IN /\ f.created = << r >>
                 /\ runs[r].tag = f.integration
                 /\ f.ended = << [run |-> r, status |-> status] >>
                 /\ runs[r].status = status
                 /\ active = << >>
                 /\ Len(runs) = 1

\* C10: with manage_run and no run active when the patch function is entered,
\* exactly one run is created, tagged with the integration, and it is ended
\* exactly once, FINISHED on a normal return and FAILED on an exception or an
\* interrupt, by the time the patch function has ended, in the function form and
\* in the class form.
C10_ManagedRun ==
    /\ Done => ManagedRunEnded(done)
    /\ \A t \in Threads : (Depth(t) > 0 /\ PatchEnded(Top(t))) => ManagedRunEnded(Top(t))

C10_Witness ==
    /\ Done /\ done.manage_run /\ done.patch_is_class /\ done.entry.run = None
    /\ ~done.tracking_failed /\ ~done.patch_touched_runs
    /\ done.patch_out = PatchError /\ done.out = PatchError
    /\ done.ended = << [run |-> 1, status |-> "FAILED"] >>

\* C11: with manage_run and a run already active when the patch function is
\* entered, with_managed_run creates no run and ends no run; unless the patch
\* implementation starts or ends runs itself, the run that was active is still
\* the active run, still RUNNING, when the patch function has returned or raised.
C11_ActiveRunUntouched ==
    \A f \in {done} \cup {Top(t) : t \in {u \in Threads : Depth(u) > 0}} :
        (PatchEnded(f) /\ f.manage_run /\ f.patch_calls = 1 /\ f.entry.run # None)
            => /\ f.created = << >> /\ f.ended = << >> /\ f.managed_run = None
               /\ ~f.tracking_failed
               /\ ~f.patch_touched_runs =>
                     /\ ActiveRun(active) = f.entry.run
                     /\ runs = << [status |-> "RUNNING", tag |-> "-", by |-> "user"] >>

C11_Witness ==
    /\ Done /\ done.manage_run /\ done.patch_is_class /\ done.patch_calls = 1
    /\ done.entry.run = 1 /\ ~done.patch_touched_runs
    /\ done.wrapper_out = PatchError
    /\ ActiveRun(active) = 1 /\ runs[1].status = "RUNNING"

\* C12 as stated: the state of a session is written exactly once, from running,
\* and only by the call that owns the session.
C12_AsStated ==
    /\ \A s \in DOMAIN sessions : sessions[s].writes <= 1
    /\ (Done /\ ~Skipped(done) /\ ~done.owns /\ done.entry.ordinal = ncalls)
          => sessions[done.sid].writes = done.entry.session_writes

\* C12, amended: a session is running until its state is first written and never
\* running afterwards; every non-skipped guarded call that shares the session,
\* its owner or a nested call, writes the state once when its patch function
\* ends (succeeded on a return, failed on an exception, nothing on an
\* interrupt), so the first write replaces running and a later write replaces
\* succeeded or failed.
C12_SessionStateWrites ==
    /\ \A s \in DOMAIN sessions :
          /\ (sessions[s].writes = 0) = (sessions[s].state = "running")
          /\ sessions[s].state \in {"running", "succeeded", "failed"}
          /\ sessions[s].writes <= ncalls
          /\ sessions[s].writes = 1 => sessions[s].before = "running"
          /\ sessions[s].writes > 1 => sessions[s].before \in {"succeeded", "failed"}
    /\ (Done /\ ~Skipped(done) /\ done.entry.ordinal = ncalls)
          => LET s == sessions[done.sid]
                 n == IF done.owns THEN 0 ELSE done.entry.session_writes
                 st == IF done.owns THEN "running" ELSE done.entry.session_state
             IN IF done.wrapper_out.k = "ret"
                THEN s.state = "succeeded" /\ s.writes = n + 1 /\ s.before = st
                ELSE IF IsException(done.wrapper_out)
                THEN s.state = "failed" /\ s.writes = n + 1 /\ s.before = st
                ELSE s.state = st /\ s.writes = n

C12_Witness ==
    /\ Done /\ done.owns /\ Depth("t1") = 0
    /\ sessions[done.sid].writes = 2
    /\ sessions[done.sid].before = "failed"
    /\ sessions[done.sid].state = "succeeded"

\* The frames of thread t that have entered a session.
InSession(t) == {i \in DOMAIN stacks[t] : stacks[t][i].sid # None}

\* C13: the non-skipped guarded calls nested on one call chain all hold the same
\* session, the ambient one, which the outermost of them created; a nested call
\* creates no session and leaves the ambient session in place when it ends.
C13_NestedCallsShareSession ==
    /\ \A i \in InSession("t1") :
          /\ stacks["t1"][i].sid = session
          /\ stacks["t1"][i].owns = (\A j \in InSession("t1") : i <= j)
          /\ stacks["t1"][i].owns => stacks["t1"][i].sid > stacks["t1"][i].entry.sessions
          /\ ~stacks["t1"][i].owns => stacks["t1"][i].sid <= stacks["t1"][i].entry.sessions
    /\ (Done /\ ~Skipped(done) /\ ~done.owns)
          => /\ InSession("t1") # {}
             /\ session = done.sid
             /\ done.sid = done.entry.session
             /\ Len(sessions) = done.entry.sessions

C13_Witness ==
    /\ Depth("t1") = 2
    /\ InSession("t1") = {1, 2}
    /\ stacks["t1"][2].pc = "patch"
    /\ stacks["t1"][2].sid = stacks["t1"][1].sid
    /\ Len(sessions) = 1

\* C14: the ambient session is cleared by the guarded call that created it, and
\* by no other, when that call returns or raises: once an outermost non-skipped
\* guarded call has ended there is no ambient session.
C14_OwnerClearsSession ==
    Done => /\ done.owns => session = None /\ done.sid # None
            /\ (~Skipped(done) /\ ~done.owns) => session = done.sid /\ session # None
            /\ Skipped(done) => session = done.entry.session \/ done.entry.ordinal # ncalls
            /\ (~Skipped(done) /\ Depth("t1") = 0) => done.owns /\ session = None

C14_Witness ==
    /\ Done /\ done.owns /\ Depth("t1") = 0 /\ session = None
    /\ done.out = Exc("KeyboardInterrupt", "patch")
    /\ done.entry.ordinal < ncalls

\* C15: guarded calls that run at the same time on two threads have sessions of
\* their own: no call enters with the session of the other thread as its ambient
\* session, the two calls never hold the same session, and no call is skipped
\* because of a failed session of the other thread.
C15_SessionPerThread ==
    /\ \A t \in Threads : Depth(t) > 0 =>
          /\ Top(t).entry.session = None
          /\ Top(t).site # "skip"
          /\ Top(t).sid # None => Top(t).owns
    /\ (Depth("t1") > 0 /\ Depth("t2") > 0 /\ Top("t1").sid # None)
          => Top("t1").sid # Top("t2").sid

\* The guarded calls whose patch function has ended.
EndedCalls == {f \in {done} \cup {Top(t) : t \in {u \in Threads : Depth(u) > 0}} : PatchEnded(f)}

\* C16: for a PatchFunction (and a tracking client that works), when
\* _patch_implementation raises E, an exception or an interrupt, _on_exception
\* is called exactly once and E is what __call__ raises, also when _on_exception
\* raises; when _patch_implementation returns, _on_exception is not called and
\* the result is returned.
C16_PatchFunctionCall ==
    \A f \in EndedCalls :
        (f.patch_is_class /\ f.patch_calls = 1 /\ ~f.tracking_failed)
            => /\ f.patch_out.k \in {"ret", "exc"}
               /\ f.wrapper_out = f.patch_out
               /\ f.on_exception_calls = IF f.patch_out.k = "exc" THEN 1 ELSE 0

C16_Witness ==
    /\ Done /\ done.patch_is_class /\ done.on_exception_raises
    /\ done.on_exception_calls = 1
    /\ done.patch_out = PatchError /\ done.wrapper_out = PatchError
    /\ testing /\ done.out = PatchError

Interrupt == Exc("KeyboardInterrupt", "patch")

\* C17: when the patch implementation of a guarded call with manage_run that
\* created its run raises a keyboard interrupt (the tracking client working and
\* the patch implementation starting and ending no run itself), the managed run
\* is ended as FAILED, _on_exception runs once if the patch is a PatchFunction,
\* and the guarded call raises the interrupt in production and in test mode,
\* without calling original in a fallback.
C17_InterruptEndsManagedRun ==
    (/\ Done /\ done.manage_run /\ done.created # << >> /\ done.patch_out = Interrupt
     /\ ~done.tracking_failed /\ ~done.patch_touched_runs)
        => /\ done.ended = << [run |-> done.created[1], status |-> "FAILED"] >>
           /\ runs[done.created[1]].status = "FAILED"
           /\ active = << >>
           /\ done.on_exception_calls = IF done.patch_is_class THEN 1 ELSE 0
           /\ done.wrapper_out = Interrupt
           /\ done.out = Interrupt
           /\ \A i \in Invocations(done) : i.site = "closure"

C17_Witness ==
    /\ Done /\ ~testing /\ done.manage_run /\ done.patch_is_class
    /\ done.patch_out = Interrupt /\ done.out = Interrupt
    /\ done.ended = << [run |-> 1, status |-> "FAILED"] >>
    /\ done.on_exception_calls = 1

\* The guarded calls with manage_run whose patch function has ended after a call
\* of the tracking client failed in it.
TrackingFailures == {f \in EndedCalls : f.manage_run /\ f.patch_calls = 1 /\ f.tracking_failed}

\* C20 as stated: in production mode a failure of the tracking client does not
\* leave the wrapper, the patch implementation runs and the wrapper ends as it
\* ended; in test mode the failure is what the wrapper raises.
C20_AsStated ==
    \A f \in TrackingFailures :
        IF testing THEN f.wrapper_out = TrackingError
        ELSE f.patch_out.k \in {"ret", "exc"} /\ f.wrapper_out = f.patch_out

\* C20, amended: the same, except that in test mode a failure of end_run inside
\* the _on_exception of the class form, called because the patch implementation
\* raised E, does not leave the wrapper: E is raised.
C20_TrackingFailure ==
    \A f \in TrackingFailures :
        IF ~testing
        THEN f.patch_out.k \in {"ret", "exc"} /\ f.wrapper_out = f.patch_out
        ELSE IF f.patch_out = Pending
        THEN f.wrapper_out = TrackingError /\ f.created = << >>
        ELSE IF f.patch_is_class /\ f.patch_out.k = "exc"
        THEN f.wrapper_out = f.patch_out
        ELSE f.wrapper_out = TrackingError

C20_Witness ==
    /\ Done /\ ~testing /\ done.manage_run /\ done.tracking_failed
    /\ done.created = << >> /\ done.patch_calls = 1
    /\ done.patch_out = Ret(11) /\ done.wrapper_out = Ret(11)

\* C18: a call of the function exception_safe_function returns calls the wrapped
\* function once with the same arguments; it returns what the function returns;
\* when the function raises an exception it returns None in production mode and
\* raises the same exception in test mode.
C18_ExceptionSafeFunction ==
    \A i \in DOMAIN safe_calls :
        LET c == safe_calls[i]
        IN /\ c.function_calls = << c.args >>
           /\ c.function_out.k = "ret" => c.out = c.function_out
           /\ c.function_out = Exc("Exception", "function")
                 => c.out = IF testing THEN c.function_out ELSE Ret(None)

C18_Witness ==
    /\ ~testing
    /\ Len(safe_calls) = 2
    /\ safe_calls[1].function_out = Ret(10) /\ safe_calls[1].out = Ret(10)
    /\ safe_calls[2].function_out = Exc("Exception", "function") /\ safe_calls[2].out = Ret(None)

\* The invocations of original made through the closure.
ClosureInvocations(f) == {i \in Invocations(f) : i.site = "closure"}

\* What a non-skipped guarded call does once its patch function has ended with
\* w, told from the mode and the invocations of original alone: it raises w, or
\* it returns the captured result, or it ends as original(args) ends.
OutcomeWithoutLogger(f) ==
    LET w == f.wrapper_out
    IN IF w.k = "exc" /\ (~IsException(w) \/ testing \/ \E i \in ClosureInvocations(f) : i.out.k = "exc")
       THEN w
       ELSE IF ClosureInvocations(f) # {}
       THEN Ret(IF LastReturned(f) = 0 THEN None ELSE f.invocations[LastReturned(f)].out.v)
       ELSE original[f.args]

\* C19: the outcome of a guarded call, the state its session is left in and the
\* invocations of original are determined by the mode, the patch implementation
\* and original, whichever EventLogger notifications raise an exception, in
\* production and in test mode.
C19_LoggerFailuresChangeNothing ==
    (Done /\ ~Skipped(done))
        => /\ done.out = OutcomeWithoutLogger(done)
           /\ sessions[done.sid].state =
                 IF done.wrapper_out.k = "ret" THEN "succeeded"
                 ELSE IF IsException(done.wrapper_out) THEN "failed" ELSE "running"
           /\ IF ClosureInvocations(done) # {}
              THEN /\ \A i \in Invocations(done) : i.site = "closure"
                   /\ Len(done.invocations) <= done.closure_calls
              ELSE Len(done.invocations) =
                       IF done.out = done.wrapper_out /\ done.out.k = "exc" THEN 0 ELSE 1
           /\ \A i \in DOMAIN done.events : done.events[i] \notin failing_events

C19_Witness ==
    /\ Done /\ ~Skipped(done) /\ ~testing
    /\ failing_events = EventNames /\ done.events = << >>
    /\ done.closure_calls = 1 /\ done.wrapper_out = PatchError
    /\ done.out = Ret(10)
    /\ sessions[done.sid].state = "failed"

\* The call forwards the very objects the caller passed, and nothing else.
ForwardsSame(c) ==
    /\ c.autologging_call_args = c.user_call_args
    /\ c.autologging_call_kwargs = c.user_call_kwargs

\* C21: _validate_args(args, kwargs, args, kwargs) succeeds for all args and
\* kwargs, whatever they hold: None, nan, objects, functions, and lists, tuples
\* and dicts of them.
C21_SameArgumentsAccepted ==
    \A i \in DOMAIN validated : ForwardsSame(validated[i]) => validated[i].ok

C21_Witness ==
    /\ validated # << >>
    /\ validated[1].user_call_args = << PyList(<< PyNone, NaN >>), UnsafeObject >>
    /\ ForwardsSame(validated[1])
    /\ validated[1].ok

\* A value that is exception safe, in the claim's words: a callable with the
\* exception_safe attribute, an instance (not callable) of a class with the
\* ExceptionSafeClass metaclass, or a list of such values.
RECURSIVE ExceptionSafeValue(_)
ExceptionSafeValue(v) ==
    \/ v.callable /\ v.exception_safe
    \/ ~v.callable /\ v.type = "instance" /\ v.meta \in {"ExceptionSafeClass", "ExceptionSafeAbstractClass"}
    \/ v.type = "list" /\ \A i \in DOMAIN v.items : ExceptionSafeValue(v.items[i])

\* The call adds one positional argument to those of the caller, which it
\* forwards; the added argument is the last.
AddsOneArgument(c) ==
    /\ Len(c.autologging_call_args) = Len(c.user_call_args) + 1
    /\ SubSeq(c.autologging_call_args, 1, Len(c.user_call_args)) = c.user_call_args
    /\ c.autologging_call_kwargs = c.user_call_kwargs

\* C22: when the closure is called with the caller's arguments and one more,
\* _validate_args succeeds if and only if the added value is exception safe.
C22_NewArgumentSafety ==
    \A i \in DOMAIN validated :
        AddsOneArgument(validated[i])
            => (validated[i].ok <=>
                  ExceptionSafeValue(validated[i].autologging_call_args[Len(validated[i].autologging_call_args)]))

\* The value c stands where the caller passed u: the same type, and the same or
\* an equal value, element by element for what a list or a tuple of the caller
\* holds and key by key for a dict.
RECURSIVE Forwards(_, _)
Forwards(c, u) ==
    /\ c.type = u.type
    /\ IF u.type \in {"list", "tuple"}
       THEN /\ Len(c.items) >= Len(u.items)
            /\ \A i \in DOMAIN u.items : Forwards(c.items[i], u.items[i])
       ELSE IF u.type = "dict"
       THEN /\ DOMAIN u.entries \subseteq DOMAIN c.entries
            /\ \A k \in DOMAIN u.entries : Forwards(c.entries[k], u.entries[k])
       ELSE Is(c, u) \/ Equal(c, u)

\* C23: when _validate_args succeeds, every positional argument of the caller is
\* at its position in the closure's arguments and every keyword of the caller is
\* among the closure's, with the same type and the same or an equal value; with
\* fewer positional arguments or a keyword missing it fails.
C23_AcceptedCallsForwardUserArguments ==
    \A i \in DOMAIN validated :
        LET c == validated[i]
        IN /\ c.ok => /\ Forwards(PyTuple(c.autologging_call_args), PyTuple(c.user_call_args))
                      /\ Forwards(PyDict(c.autologging_call_kwargs), PyDict(c.user_call_kwargs))
           /\ Len(c.autologging_call_args) < Len(c.user_call_args) => ~c.ok
           /\ ~(DOMAIN c.user_call_kwargs \subseteq DOMAIN c.autologging_call_kwargs) => ~c.ok

\* The wrapped functions among the arguments the closure was called with.
WrappersIn(c) ==
    {i \in DOMAIN wrapped :
        \/ \E j \in DOMAIN c.autologging_call_args :
              \/ c.autologging_call_args[j] = wrapped[i].wrapper
              \/ \E k \in DOMAIN c.autologging_call_args[j].items :
                    c.autologging_call_args[j].items[k] = wrapped[i].wrapper
        \/ \E k \in DOMAIN c.autologging_call_kwargs : c.autologging_call_kwargs[k] = wrapped[i].wrapper}

\* C27: the function exception_safe_function returns has the exception_safe
\* attribute, whatever the mode was when it was called, and a call that adds
\* wrapped functions to the caller's arguments passes _validate_args.
C27_WrappedFunctionIsMarked ==
    /\ \A i \in DOMAIN wrapped : wrapped[i].wrapper.exception_safe
    /\ \A i \in DOMAIN validated : WrappersIn(validated[i]) # {} => validated[i].ok

\* The assertion failures of the test-mode validation.
ArgsInvalid == Exc("AssertionError", "validate_args")
LeakedRun == Exc("AssertionError", "leaked_run")
RunInvalid == Exc("AssertionError", "validate_run")

\* _validate_args failed in a call of the closure made during the guarded call f.
ArgsValidationFailed(f) == ArgsInvalid \in f.caught \/ f.patch_out = ArgsInvalid

\* C24 as stated (with a tracking client that does not fail): in test mode a
\* guarded call in which _validate_args failed raises an assertion failure,
\* whatever the patch implementation does with what the closure raises.
C24_AsStated ==
    (Done /\ testing /\ ArgsValidationFailed(done) /\ ~done.tracking_failed)
        => done.out.k = "exc" /\ done.out.cls = "AssertionError"

\* C24, amended: in test mode (the tracking client not failing), once the patch
\* function has returned or its exception has been swallowed, a run left active
\* by a call that began with none, and a run captured by the closure that lacks
\* the integration's tag or a terminal status, make the guarded call raise an
\* assertion failure; a failure of _validate_args is raised as an assertion failure
\* into the patch implementation and the guarded call raises it when the patch
\* implementation lets it pass: a patch implementation that catches it
\* suppresses it.
C24_ValidationFailureRaised ==
    (Done /\ testing /\ ~Skipped(done) /\ ~done.tracking_failed)
        => /\ done.patch_out = ArgsInvalid => done.out = ArgsInvalid
           /\ (done.wrapper_out.k = "ret" /\ done.preexisting_run_for_testing = None)
                 => /\ active # << >> => done.out = LeakedRun
                    /\ (/\ active = << >>
                        /\ done.patch_function_run_for_testing # None
                        /\ ~(/\ runs[done.patch_function_run_for_testing].tag = done.integration
                             /\ runs[done.patch_function_run_for_testing].status
                                    \in {"FINISHED", "FAILED", "KILLED"}))
                          => done.out = RunInvalid

C24_Witness ==
    /\ Done /\ testing /\ ~Skipped(done) /\ ~done.tracking_failed
    /\ done.wrapper_out.k = "ret" /\ done.preexisting_run_for_testing = None
    /\ active = << >>
    /\ done.patch_function_run_for_testing = 1
    /\ runs[1].tag = "-" /\ runs[1].status = "FINISHED"
    /\ done.out = RunInvalid

\* The patches recorded in the registry, under any integration.
AllRecorded == UNION {patches[i] : i \in DOMAIN patches}

\* C25: safe_patch records the patch it applies under its integration;
\* revert_patches(integration) reverts each patch recorded for the integration,
\* once, and removes them from the registry, leaving the patches of the other
\* integrations recorded and applied; a patch is never reverted twice, so a
\* second revert_patches(integration) reverts nothing.
C25_RegistryLifecycle ==
    /\ \A p \in DOMAIN gorilla :
          /\ gorilla[p].reverts <= 1
          /\ gorilla[p].applied = (gorilla[p].reverts = 0)
          /\ gorilla[p].applied = (p \in AllRecorded)
          /\ \A i \in DOMAIN patches : p \in patches[i] => gorilla[p].integration = i
    /\ registry_op.op = "install" =>
          LET b == registry_op.before
              i == registry_op.integration
          IN /\ patches[i] = Recorded(b.patches, i) \cup {registry_op.patch}
             /\ registry_op.patch \notin DOMAIN b.gorilla
             /\ gorilla[registry_op.patch].applied
             /\ \A j \in DOMAIN patches \ {i} : j \in DOMAIN b.patches /\ patches[j] = b.patches[j]
             /\ \A q \in DOMAIN b.gorilla : gorilla[q] = b.gorilla[q]
    /\ registry_op.op = "revert" =>
          LET b == registry_op.before
              i == registry_op.integration
          IN /\ i \notin DOMAIN patches
             /\ DOMAIN patches = DOMAIN b.patches \ {i}
             /\ \A j \in DOMAIN patches : patches[j] = b.patches[j]
             /\ DOMAIN gorilla = DOMAIN b.gorilla
             /\ \A q \in DOMAIN gorilla :
                   IF q \in Recorded(b.patches, i)
                   THEN /\ gorilla[q].reverts = b.gorilla[q].reverts + 1
                        /\ ~gorilla[q].applied
                   ELSE gorilla[q] = b.gorilla[q]

\* revert_patches(sklearn) called a second time, with a patch of keras applied.
C25_Witness ==
    /\ registry_op.op = "revert" /\ registry_op.integration = "sklearn"
    /\ "sklearn" \notin DOMAIN registry_op.before.patches
    /\ gorilla = << [integration |-> "sklearn", applied |-> FALSE, reverts |-> 1],
                    [integration |-> "keras", applied |-> TRUE, reverts |-> 0] >>
    /\ DOMAIN patches = {"keras"} /\ patches["keras"] = {2}

\* C26: after revert_patches("mlflow"), the name of the fluent API, no patch of
\* any integration is recorded or applied.
C26_UmbrellaRevertsAll ==
    (registry_op.op = "revert" /\ registry_op.integration = "mlflow")
        => /\ DOMAIN patches = {}
           /\ \A p \in DOMAIN gorilla : ~gorilla[p].applied

\* C28: a step of a guarded call (any step that changes a call stack or completes
\* a call) leaves the registry as it is: the patches recorded and the patches
\* applied change in calls of safe_patch and revert_patches only.
C28_CallsLeaveRegistry ==
    [][(stacks' # stacks \/ done' # done) => (patches' = patches /\ gorilla' = gorilla)]_vars

\* A guarded call has completed, skipped or not, between an install and a revert.
C28_Witness ==
    /\ Done /\ Skipped(done) /\ done.out = OriginalError
    /\ registry_op.op = "revert"
    /\ Len(gorilla) = 2 /\ DOMAIN patches = {"sklearn"}

\* A run the user created was the active run when the guarded call f began.
UserRunActiveAtEntry(f) == f.entry.run # None /\ runs[f.entry.run].by = "user"

\* C29: a guarded call of an exclusive integration that begins while a run the
\* user created is active is skipped, whether the user's program makes it or the
\* original function of a guarded call of another integration.
C29_ExclusiveSkipsUserRuns ==
    \A t \in Threads : \A i \in DOMAIN stacks[t] :
        LET f == stacks[t][i]
        IN (/\ f.entry.exclusive /\ UserRunActiveAtEntry(f)
            /\ i > 1 => stacks[t][i - 1].integration # f.integration)
              => Skipped(f)

\* A guarded call in test mode, not skipped, that began with no active run and
\* in which no invocation of original raised.
TestedCall(f) ==
    /\ testing /\ ~Skipped(f) /\ f.entry.run = None
    /\ \A i \in Invocations(f) : i.out.k = "ret"

\* The run has the integration's tag and a terminal status.
TaggedAndEnded(run, integ) ==
    runs[run].tag = integ /\ runs[run].status \in {"FINISHED", "FAILED", "KILLED"}

\* C30 as stated: in test mode, for a non-skipped guarded call that began with
\* no active run and in which original did not fail, a run still active when the
\* patch function has returned makes the call raise an assertion failure, and
\* the call returns normally only if every run that was active at an invocation
\* of original through the closure has the integration's tag and a terminal
\* status.
C30_AsStated ==
    (Done /\ TestedCall(done))
        => /\ (done.wrapper_out.k = "ret" /\ active # << >>) => done.out = LeakedRun
           /\ done.out.k = "ret" =>
                 \A i \in DOMAIN done.closure_runs :
                    done.closure_runs[i] # None => TaggedAndEnded(done.closure_runs[i], done.integration)

\* C30, amended: the same for the run active at the last invocation of original
\* through the closure: the reference captured by an earlier invocation is
\* overwritten, and a run that was active only then is not checked.
C30_TestModeRunChecks ==
    (Done /\ TestedCall(done))
        => /\ (done.wrapper_out.k = "ret" /\ active # << >>) => done.out = LeakedRun
           /\ (done.out.k = "ret" /\ done.closure_runs # << >>) =>
                 LET last == done.closure_runs[Len(done.closure_runs)]
                 IN last # None => TaggedAndEnded(last, done.integration)

C30_Witness ==
    /\ Done /\ TestedCall(done) /\ done.out = Ret(10)
    /\ done.closure_runs = << 1 >> /\ done.patch_touched_runs
    /\ runs[1].tag = done.integration /\ runs[1].status = "FINISHED" /\ runs[1].by = "patch"

\* ---- C31
OriginalEvents == {"original_success", "original_error"}
PatchEndEvents == {"patch_success", "patch_error"}

\* The positions of the notifications of ev that are in S.
Positions(ev, S) == {i \in DOMAIN ev : ev[i] \in S}

\* The original-start notifications that no original-success or original-error
\* follows.
Unanswered(ev) ==
    {i \in Positions(ev, {"original_start"}) : ~(i + 1 \in DOMAIN ev /\ ev[i + 1] \in OriginalEvents)}

\* The invocations of original through the closure that an interrupt ended.
InterruptedInvocations(f) ==
    {i \in DOMAIN f.invocations :
        f.invocations[i].site = "closure" /\ f.invocations[i].out.cls = "KeyboardInterrupt"}

\* The order of the notifications whatever original does: one patch-start,
\* first; an original-success or original-error only right after an
\* original-start; at most one of patch-success and patch-error, last;
\* patch-success only with a session whose state is succeeded.
EventOrder(f) ==
    LET ev == f.events
    IN /\ ev # << >> /\ Positions(ev, {"patch_start"}) = {1}
       /\ \A i \in Positions(ev, OriginalEvents) : i > 1 /\ ev[i - 1] = "original_start"
       /\ Cardinality(Positions(ev, PatchEndEvents)) <= 1
       /\ Positions(ev, PatchEndEvents) \subseteq {Len(ev)}
       /\ Positions(ev, {"patch_success"}) # {} => f.notified_state = "succeeded"

\* C31 as stated: in every non-skipped guarded call that has ended, the
\* notifications are in that order, every original-start is followed by one
\* original-success or original-error, and patch-error is sent only in
\* production mode, when the patch function raised and no invocation of original
\* through the closure failed.
C31_AsStated ==
    (Done /\ ~Skipped(done))
        => /\ EventOrder(done)
           /\ Unanswered(done.events) = {}
           /\ Positions(done.events, {"patch_error"}) # {}
                 => /\ ~testing /\ done.wrapper_out.k = "exc"
                    /\ \A i \in ClosureInvocations(done) : i.out.k = "ret"

\* C31, amended: in every non-skipped guarded call that has ended, the
\* notifications are in that order; the original-starts that no original-success
\* or original-error follows are as many as the invocations of original that an
\* interrupt ended; patch-error is sent only in production mode, when the patch
\* function raised an exception and no invocation of original through the closure
\* raised an exception (one that an interrupt ended may have occurred).
C31_NotificationOrder ==
    (Done /\ ~Skipped(done))
        => /\ EventOrder(done)
           /\ Cardinality(Unanswered(done.events)) = Cardinality(InterruptedInvocations(done))
           /\ Positions(done.events, {"patch_error"}) # {}
                 => /\ ~testing /\ IsException(done.wrapper_out)
                    /\ ~done.failed_during_original
                    /\ \A i \in ClosureInvocations(done) : ~IsException(i.out)

C31_Witness ==
    /\ Done /\ ~Skipped(done) /\ ~testing
    /\ done.events = << "patch_start", "original_start", "original_success", "patch_error" >>
    /\ done.out = Ret(10)

\* ---- C32
\* The guarded calls in progress and the one that ended last.
Frames ==
    UNION {{stacks[t][i] : i \in DOMAIN stacks[t]} : t \in Threads} \cup (IF Done THEN {done} ELSE {})

\* C32: in every guarded call, whenever failed_during_original is set or the
\* original-error notification was sent, original_has_been_called is set and
\* original was invoked through the closure and raised an exception.
C32_FailureFlagImpliesOriginalCalled ==
    \A f \in {g \in Frames : g.failed_during_original \/ Positions(g.events, {"original_error"}) # {}} :
        /\ f.original_has_been_called
        /\ \E i \in ClosureInvocations(f) : IsException(i.out)

\* ---- C33
\* The callables in a value: the value itself, or the callable elements of a list.
RECURSIVE Callables(_)
Callables(v) ==
    IF v.type = "list" THEN UNION {Callables(v.items[i]) : i \in DOMAIN v.items}
    ELSE IF v.callable THEN {v}
    ELSE {}

\* The callables of the arguments the closure was called with that the caller
\* did not pass: further positional arguments and further keywords.
NewCallables(c) ==
    UNION {Callables(c.autologging_call_args[j]) :
              j \in DOMAIN c.autologging_call_args \ DOMAIN c.user_call_args}
        \cup UNION {Callables(c.autologging_call_kwargs[k]) :
                       k \in DOMAIN c.autologging_call_kwargs \ DOMAIN c.user_call_kwargs}

\* The functions exception_safe_function has returned.
Wrappers == {wrapped[i].wrapper : i \in DOMAIN wrapped}

\* C33: a call of the closure that adds callables to the caller's arguments
\* passes _validate_args only if every one of them is a function that
\* exception_safe_function returned; a call that adds a function that was handed
\* to exception_safe_function does not pass.
C33_OnlyWrappersPass ==
    \A i \in DOMAIN validated :
        (validated[i].ok /\ NewCallables(validated[i]) # {})
            => NewCallables(validated[i]) \subseteq Wrappers

\* ---- C34
\* C34: every invocation of original made during a guarded call, on the skip
\* path, through the closure or by the fallback, runs with the thread's
\* behaviour for non-MLflow warnings set to normal: neither disabled nor
\* rerouted, whether or not the integration is in silent mode.
C34_OriginalRunsWithNormalWarnings ==
    \A f \in Frames : \A i \in DOMAIN f.invocation_warnings :
        f.invocation_warnings[i] = NormalWarnings

\* ---- C35
\* The outermost guarded call f runs original in the fallback after its patch
\* function raised an exception that was swallowed.
InFallbackAfterFailure(f) ==
    /\ f.owns /\ f.pc = "original" /\ f.site = "fallback"
    /\ IsException(f.wrapper_out) /\ f.invocations = << >>

\* The guarded call g was skipped: no session scope, no patch implementation,
\* no notification, and only original called, with the caller's arguments.
RanOriginalOnly(g) ==
    /\ Skipped(g) /\ g.sid = None /\ g.patch_calls = 0 /\ g.events = << >>
    /\ g.og = [x |-> g.args, extra |-> "none"]
    /\ \A i \in Invocations(g) : i = Direct(g, "skip")

\* C35: in production mode, while the outermost guarded call of a call chain runs
\* original in the fallback after its instrumentation failed, the session is
\* still the one of that call, in state failed, and every guarded call nested in
\* that execution of original, in progress or ended, was skipped and ran its own
\* original only.
C35_FailedInstrumentationSkipsNested ==
    \A t \in Threads :
        (~testing /\ Depth(t) > 0 /\ InFallbackAfterFailure(stacks[t][1]))
            => /\ session = stacks[t][1].sid /\ sessions[session].state = "failed"
               /\ \A i \in 2..Depth(t) : RanOriginalOnly(stacks[t][i])
               /\ Done => (RanOriginalOnly(done) /\ done.invocations # << >>)

C35_Witness ==
    /\ ~testing /\ Depth("t1") = 1 /\ InFallbackAfterFailure(stacks["t1"][1])
    /\ Done /\ RanOriginalOnly(done) /\ done.out = Ret(10) /\ done.entry.ordinal = 2
    /\ ~done.entry.disabled /\ ~done.entry.globally_disabled /\ ~done.entry.exclusive

\* ---- C36
\* C36: whatever the interleaving of the guarded calls of the threads, while a
\* guarded call is inside its session scope, active_session() is the session
\* start_session gave it: no other call has cleared or replaced it.
C36_SessionKeptWhileInScope ==
    \A t \in Threads : \A i \in InSession(t) : session = stacks[t][i].sid
====
